---- MODULE Spec2Model ----
(***************************************************************************)
(* SynergySphere backend: the two persisted models, Project and Task, and  *)
(* the row operations (insert, update, delete) the ORM performs on them.   *)
(*                                                                         *)
(*   projects/models.py  class Project: name, description, progress,       *)
(*                       total_tasks, completed_tasks                      *)
(*   tasks/models.py     class Task: project (ForeignKey, CASCADE,         *)
(*                       related_name "tasks"), title, completed           *)
(*                                                                         *)
(* A table is a function from the primary keys of its rows to the rows.    *)
(* Text values are strings; their length is what max_length limits.        *)
(***************************************************************************)
EXTENDS Naturals, Sequences, FiniteSets, TLC

VARIABLES
    projects,       \* the Project table: id -> row
    tasks,          \* the Task table: id -> row
    nextProjectId,  \* the next primary key of the Project table
    nextTaskId,     \* the next primary key of the Task table
    last            \* the last operation: what was asked and how it ended

vars == <<projects, tasks, nextProjectId, nextTaskId, last>>

----------------------------------------------------------------------------
(* Bounds of the model *)

\* how many rows, Projects and Tasks together, are ever inserted
MaxRows == 4

----------------------------------------------------------------------------
(* The declarations of the two models *)

\* Project.name = CharField(max_length=200)
Project_name_max_length == 200
\* Task.title = CharField(max_length=200)
Task_title_max_length == 200
\* Project.progress = IntegerField(default=0)
Project_progress_default == 0
\* Project.total_tasks = IntegerField(default=0)
Project_total_tasks_default == 0
\* Project.completed_tasks = IntegerField(default=0)
Project_completed_tasks_default == 0
\* a flag that defaults to set
Task_completed_default_True == TRUE
\* Task.completed = BooleanField(default=False)
Task_completed_default == FALSE

\* the null reference: primary keys start at 1
NULL == 0

\* the text of n copies of c
RECURSIVE Rep(_, _)
Rep(c, n) ==
    IF n = 0 THEN ""
    ELSE IF n = 1 THEN c
    ELSE Rep(c, n \div 2) \o Rep(c, n - (n \div 2))

\* the value of field f of a new row: the keyword argument, else the default
FieldValue(kwargs, f, default) ==
    IF f \in DOMAIN kwargs THEN kwargs[f] ELSE default

\* the value of field f of an updated row: the keyword argument, else kept
Assigned(row, kwargs, f) ==
    IF f \in DOMAIN kwargs THEN kwargs[f] ELSE row[f]

\* a Project whose description is not stored
Project_description_dropped(kwargs) ==
    [name            |-> FieldValue(kwargs, "name", ""),
     description     |-> "",
     progress        |-> FieldValue(kwargs, "progress", Project_progress_default),
     total_tasks     |-> FieldValue(kwargs, "total_tasks", Project_total_tasks_default),
     completed_tasks |-> FieldValue(kwargs, "completed_tasks",
                                    Project_completed_tasks_default)]

\* Project(**kwargs): the row a new Project holds
Project(kwargs) ==
    [name            |-> FieldValue(kwargs, "name", ""),
     description     |-> FieldValue(kwargs, "description", ""),
     progress        |-> FieldValue(kwargs, "progress", Project_progress_default),
     total_tasks     |-> FieldValue(kwargs, "total_tasks", Project_total_tasks_default),
     completed_tasks |-> FieldValue(kwargs, "completed_tasks",
                                    Project_completed_tasks_default)]

\* a Task whose title is not stored
Task_title_dropped(kwargs) ==
    [project   |-> FieldValue(kwargs, "project", NULL),
     title     |-> "",
     completed |-> FieldValue(kwargs, "completed", Task_completed_default)]

\* Task(**kwargs): the row a new Task holds
Task(kwargs) ==
    [project   |-> FieldValue(kwargs, "project", NULL),
     title     |-> FieldValue(kwargs, "title", ""),
     completed |-> FieldValue(kwargs, "completed", Task_completed_default)]

\* an existing Project with the keyword arguments assigned to its fields
ProjectAssigned(row, kwargs) ==
    [name            |-> Assigned(row, kwargs, "name"),
     description     |-> Assigned(row, kwargs, "description"),
     progress        |-> Assigned(row, kwargs, "progress"),
     total_tasks     |-> Assigned(row, kwargs, "total_tasks"),
     completed_tasks |-> Assigned(row, kwargs, "completed_tasks")]

\* an existing Task with the keyword arguments assigned to its fields
TaskAssigned(row, kwargs) ==
    [project   |-> Assigned(row, kwargs, "project"),
     title     |-> Assigned(row, kwargs, "title"),
     completed |-> Assigned(row, kwargs, "completed")]

----------------------------------------------------------------------------
(* What the persistence layer enforces for the declared columns *)

\* a column that takes text of any length
TextFits_unlimited(text, max_length) == TRUE

\* a CharField value fits its column: the length limit of the column
TextFits(text, max_length) == Len(text) <= max_length

\* null=True: the column may be empty
Task_project_nullable(ref) == TRUE

\* project = ForeignKey(Project, ...), null left at its default: the column is
\* required
Task_project_not_null(ref) == ref # NULL

\* db_constraint=False: the reference is not checked
Task_project_unconstrained(ref) == TRUE

\* project = ForeignKey(Project, ...): a reference that is set names a Project
\* row that exists
Task_project_exists(ref) == ref = NULL \/ ref \in DOMAIN projects

\* on_delete=models.DO_NOTHING: no Task goes with the Project
Task_project_on_delete_DO_NOTHING(p) == {}

\* a cascade that does not filter by the Project
Task_project_on_delete_all(p) == DOMAIN tasks

\* on_delete=models.CASCADE: the Tasks deleted together with Project p
Task_project_on_delete(p) == {t \in DOMAIN tasks : tasks[t].project = p}

\* a reverse relation that does not filter by the Project
Project_tasks_unfiltered(p) == DOMAIN tasks

\* related_name="tasks": the reverse relation p.tasks, a query over the Task table
Project_tasks(p) == {t \in DOMAIN tasks : tasks[t].project = p}

\* class Project declares no save or delete of its own and no signal handler:
\* writing a Project row writes nothing to the Task table
Project_save_tasks(p) == tasks

\* a Task write that counts the Task into total_tasks of its Project
Task_save_projects_counting(row) ==
    IF row.project \in DOMAIN projects
    THEN [projects EXCEPT ![row.project].total_tasks = @ + 1]
    ELSE projects

\* class Task declares no save or delete of its own and no signal handler:
\* writing or deleting a Task row writes nothing to the Project table
Task_save_projects(row) == projects

\* the errors that reject a Project row
ProjectErrors(row) ==
    IF TextFits(row.name, Project_name_max_length) THEN {} ELSE {"DataError"}

\* the errors that reject a Task row; a row that breaks several rules is
\* rejected with any one of their errors
TaskErrors(row) ==
    (IF TextFits(row.title, Task_title_max_length) THEN {} ELSE {"DataError"})
    \cup (IF Task_project_not_null(row.project) THEN {} ELSE {"NotNullViolation"})
    \cup (IF Task_project_exists(row.project) THEN {} ELSE {"ForeignKeyViolation"})

\* the two referential-integrity errors
IntegrityError == {"NotNullViolation", "ForeignKeyViolation"}

\* a table without the rows of keys ks
Without(f, ks) == [k \in DOMAIN f \ ks |-> f[k]]

----------------------------------------------------------------------------
(* The inputs of the operations *)

LongestName == Rep("n", Project_name_max_length)
LongestTitle == Rep("t", Task_title_max_length)
LongDescription == Rep("d", Project_name_max_length + 1)

\* a short title, the longest title the column takes, and one longer by one
Titles == {"Do X", LongestTitle, LongestTitle \o "t"}

\* the keys a table may hold
Ids == 1..MaxRows

\* the references a caller may hand in: null, the keys of the Projects that
\* exist or existed, and a key that was never inserted
ProjectRefs == {NULL} \cup (1..nextProjectId)

\* Project.objects.create(...): two valid Projects, one whose name is too long,
\* and one that gives the three counters
ProjectCreateKwargs ==
    {[name |-> "Alpha", description |-> "demo"],
     [name |-> LongestName, description |-> LongDescription],
     [name |-> LongestName \o "n", description |-> "demo"],
     [name |-> "Alpha", description |-> "demo",
      progress |-> 50, total_tasks |-> 1, completed_tasks |-> 1]}

\* the fields assigned before p.save(): a name that is too long, or all five
ProjectUpdateKwargs ==
    {[name |-> LongestName \o "n"],
     [name |-> LongestName, description |-> LongDescription,
      progress |-> 0, total_tasks |-> 0, completed_tasks |-> 0],
     [name |-> "Alpha", description |-> "demo",
      progress |-> 50, total_tasks |-> 1, completed_tasks |-> 1]}

\* Task.objects.create(...): each reference with each title, and with the flag
TaskCreateKwargs ==
    {[project |-> r, title |-> s] : r \in ProjectRefs, s \in Titles}
    \cup {[project |-> r, title |-> "Do X", completed |-> TRUE] : r \in ProjectRefs}

\* the fields assigned before t.save(): another Project, a title that is too
\* long, or the flag set or cleared
TaskUpdateKwargs ==
    {[project |-> r] : r \in ProjectRefs}
    \cup {[title |-> LongestTitle \o "t"]}
    \cup {[title |-> "Do X", completed |-> b] : b \in BOOLEAN}

\* the rows inserted so far
Inserted == (nextProjectId - 1) + (nextTaskId - 1)

\* what an operation hands back: the primary key of the row an insert wrote, how
\* the operation ended, and the number of rows a delete removed
Result(op, id, result, deleted) ==
    [op |-> op, id |-> id, result |-> result, deleted |-> deleted]

----------------------------------------------------------------------------
(* The state after the migrations: two empty tables *)

Init ==
    /\ projects = <<>>
    /\ tasks = <<>>
    /\ nextProjectId = 1
    /\ nextTaskId = 1
    /\ last = Result("none", NULL, "OK", 0)

\* Project.objects.create(**kwargs)
CreateProject(kwargs) ==
    /\ Inserted < MaxRows
    /\ LET row == Project(kwargs) IN
       IF ProjectErrors(row) = {}
       THEN /\ projects' = projects @@ (nextProjectId :> row)
            /\ tasks' = Project_save_tasks(nextProjectId)
            /\ nextProjectId' = nextProjectId + 1
            /\ last' = Result("CreateProject", nextProjectId, "OK", 0)
            /\ UNCHANGED nextTaskId
       ELSE /\ \E e \in ProjectErrors(row) :
                 last' = Result("CreateProject", NULL, e, 0)
            /\ UNCHANGED <<projects, tasks, nextProjectId, nextTaskId>>

\* p.<field> = value, ...; p.save()
UpdateProject(p, kwargs) ==
    /\ p \in DOMAIN projects
    /\ LET row == ProjectAssigned(projects[p], kwargs) IN
       IF ProjectErrors(row) = {}
       THEN /\ projects' = [projects EXCEPT ![p] = row]
            /\ tasks' = Project_save_tasks(p)
            /\ last' = Result("UpdateProject", NULL, "OK", 0)
            /\ UNCHANGED <<nextProjectId, nextTaskId>>
       ELSE /\ \E e \in ProjectErrors(row) :
                 last' = Result("UpdateProject", NULL, e, 0)
            /\ UNCHANGED <<projects, tasks, nextProjectId, nextTaskId>>

\* p.delete(): the Tasks collected by on_delete go with the Project row
DeleteProject(p) ==
    /\ p \in DOMAIN projects
    /\ projects' = Without(projects, {p})
    /\ tasks' = Without(tasks, Task_project_on_delete(p))
    /\ last' = Result("DeleteProject", NULL, "OK", 1 + Cardinality(Task_project_on_delete(p)))
    /\ UNCHANGED <<nextProjectId, nextTaskId>>

\* Task.objects.create(**kwargs)
CreateTask(kwargs) ==
    /\ Inserted < MaxRows
    /\ LET row == Task(kwargs) IN
       IF TaskErrors(row) = {}
       THEN /\ tasks' = tasks @@ (nextTaskId :> row)
            /\ projects' = Task_save_projects(row)
            /\ nextTaskId' = nextTaskId + 1
            /\ last' = Result("CreateTask", nextTaskId, "OK", 0)
            /\ UNCHANGED nextProjectId
       ELSE /\ \E e \in TaskErrors(row) :
                 last' = Result("CreateTask", NULL, e, 0)
            /\ UNCHANGED <<projects, tasks, nextProjectId, nextTaskId>>

\* t.<field> = value, ...; t.save()
UpdateTask(t, kwargs) ==
    /\ t \in DOMAIN tasks
    /\ LET row == TaskAssigned(tasks[t], kwargs) IN
       IF TaskErrors(row) = {}
       THEN /\ tasks' = [tasks EXCEPT ![t] = row]
            /\ projects' = Task_save_projects(row)
            /\ last' = Result("UpdateTask", NULL, "OK", 0)
            /\ UNCHANGED <<nextProjectId, nextTaskId>>
       ELSE /\ \E e \in TaskErrors(row) :
                 last' = Result("UpdateTask", NULL, e, 0)
            /\ UNCHANGED <<projects, tasks, nextProjectId, nextTaskId>>

\* t.delete()
DeleteTask(t) ==
    /\ t \in DOMAIN tasks
    /\ tasks' = Without(tasks, {t})
    /\ projects' = Task_save_projects(tasks[t])
    /\ last' = Result("DeleteTask", NULL, "OK", 1)
    /\ UNCHANGED <<nextProjectId, nextTaskId>>

Next ==
    \/ \E kwargs \in ProjectCreateKwargs : CreateProject(kwargs)
    \/ \E p \in Ids, kwargs \in ProjectUpdateKwargs : UpdateProject(p, kwargs)
    \/ \E p \in Ids : DeleteProject(p)
    \/ \E kwargs \in TaskCreateKwargs : CreateTask(kwargs)
    \/ \E t \in Ids, kwargs \in TaskUpdateKwargs : UpdateTask(t, kwargs)
    \/ \E t \in Ids : DeleteTask(t)

Spec == Init /\ [][Next]_vars

----------------------------------------------------------------------------
(* Properties *)

\* C1: deleting a Project p removes, in the same step, every Task whose
\* project is p: right after the delete p is gone and no Task references p,
\* however many Tasks referenced it before.
C1_DeleteProjectCascades ==
    [][\A p \in Ids :
          DeleteProject(p) =>
              /\ p \notin DOMAIN projects'
              /\ \A t \in DOMAIN tasks' : tasks'[t].project # p]_vars

\* a Project that two Tasks referenced has just been deleted, and they with it
C1_Witness ==
    /\ last.op = "DeleteProject"
    /\ last.deleted = 3

\* C2: in every reachable state every Task's project is set (not null) and
\* names a Project that exists.
C2_NoDanglingReference ==
    \A t \in DOMAIN tasks :
        /\ tasks[t].project # NULL
        /\ tasks[t].project \in DOMAIN projects

\* a Task has just been saved with success while a Task exists and some
\* Project that once existed is deleted
C2_Witness ==
    /\ last.op = "UpdateTask"
    /\ last.result = "OK"
    /\ tasks # <<>>
    /\ \E p \in 1..(nextProjectId - 1) : p \notin DOMAIN projects

\* what C3 asks of a step that saves a Task with the given title whose project
\* names no existing Project: the save fails, with the foreign-key error when
\* the title is one the column takes, and both tables are as before
C3_Rejected(title) ==
    /\ last'.result # "OK"
    /\ Len(title) <= 200 => last'.result = "ForeignKeyViolation"
    /\ last'.result \in IntegrityError \cup {"DataError"}
    /\ projects' = projects
    /\ tasks' = tasks

Counters == {"progress", "total_tasks", "completed_tasks"}

\* C4: a Project created without values for progress, total_tasks and
\* completed_tasks has all three equal to 0 right after the insert, and a Task
\* created without a value for completed has completed = false.
C4_Defaults ==
    [][/\ (last'.op = "CreateProject" /\ last'.result = "OK") =>
             \A kwargs \in ProjectCreateKwargs :
                 (DOMAIN kwargs \cap Counters = {} /\ CreateProject(kwargs)) =>
                     /\ projects'[last'.id].progress = 0
                     /\ projects'[last'.id].total_tasks = 0
                     /\ projects'[last'.id].completed_tasks = 0
       /\ (last'.op = "CreateTask" /\ last'.result = "OK") =>
             \A kwargs \in TaskCreateKwargs :
                 ("completed" \notin DOMAIN kwargs /\ CreateTask(kwargs)) =>
                     tasks'[last'.id].completed = FALSE]_vars

\* a Task has just been inserted without the flag, into a Project that was
\* inserted without the counters and never saved since
C4_Witness ==
    /\ last.op = "CreateTask"
    /\ last.result = "OK"
    /\ last.id \in DOMAIN tasks
    /\ tasks[last.id].completed = FALSE
    /\ projects[tasks[last.id].project].name = "Alpha"
    /\ projects[tasks[last.id].project].progress = 0
    /\ projects[tasks[last.id].project].total_tasks = 0
    /\ projects[tasks[last.id].project].completed_tasks = 0

\* the Tasks of Project p that are completed
CompletedTasks(p) == {t \in DOMAIN tasks : tasks[t].project = p /\ tasks[t].completed}

\* C5: no operation on a Task (insert, save with the flag set or cleared or
\* with another Project, delete) changes progress, total_tasks or
\* completed_tasks of any Project.
C5_TaskWritesLeaveCounters ==
    [][last'.op \in {"CreateTask", "UpdateTask", "DeleteTask"} =>
          \A p \in DOMAIN projects :
              /\ p \in DOMAIN projects'
              /\ projects'[p].progress = projects[p].progress
              /\ projects'[p].total_tasks = projects[p].total_tasks
              /\ projects'[p].completed_tasks = projects[p].completed_tasks]_vars

\* after a Task operation a Project's total_tasks differs from the number of
\* Tasks that reference it, and its completed_tasks from the number completed
C5_Witness ==
    /\ last.op \in {"CreateTask", "UpdateTask", "DeleteTask"}
    /\ last.result = "OK"
    /\ \E p \in DOMAIN projects :
           /\ projects[p].total_tasks # Cardinality(Project_tasks(p))
           /\ projects[p].completed_tasks # Cardinality(CompletedTasks(p))

\* C6: a Project created with a valid name and a description reads back with
\* exactly that name and description, and keeps both over every later step
\* that neither saves nor deletes that Project (a step keeps them, or it is a
\* delete or a save of that Project).
C6_ProjectRoundTrip ==
    [][/\ (last'.op = "CreateProject" /\ last'.result = "OK") =>
             \A kwargs \in ProjectCreateKwargs :
                 CreateProject(kwargs) =>
                     /\ last'.id \in DOMAIN projects'
                     /\ projects'[last'.id].name = kwargs.name
                     /\ projects'[last'.id].description = kwargs.description
       /\ \A p \in DOMAIN projects :
             \/ /\ p \in DOMAIN projects'
                /\ projects'[p].name = projects[p].name
                /\ projects'[p].description = projects[p].description
             \/ DeleteProject(p)
             \/ \E kwargs \in ProjectUpdateKwargs : UpdateProject(p, kwargs)]_vars

\* a Project has just been inserted with the longest name and a description
\* longer than a name may be, and holds both
C6_Witness ==
    /\ last.op = "CreateProject"
    /\ last.result = "OK"
    /\ last.id \in DOMAIN projects
    /\ projects[last.id].name = LongestName
    /\ projects[last.id].description = LongDescription

\* C7: a Task created with an existing Project p and a valid title t reads
\* back with project = p, title = t and completed = false, and keeps all three
\* over every later step that neither saves nor deletes that Task nor deletes p
\* (a step keeps the row, or it is a delete or a save of that Task or a delete
\* of p).
C7_TaskRoundTrip ==
    [][/\ (last'.op = "CreateTask" /\ last'.result = "OK") =>
             \A kwargs \in TaskCreateKwargs :
                 ("completed" \notin DOMAIN kwargs /\ CreateTask(kwargs)) =>
                     /\ last'.id \in DOMAIN tasks'
                     /\ tasks'[last'.id].project = kwargs.project
                     /\ tasks'[last'.id].title = kwargs.title
                     /\ tasks'[last'.id].completed = FALSE
       /\ \A t \in DOMAIN tasks :
             \/ /\ t \in DOMAIN tasks'
                /\ tasks'[t] = tasks[t]
             \/ DeleteTask(t)
             \/ DeleteProject(tasks[t].project)
             \/ \E kwargs \in TaskUpdateKwargs : UpdateTask(t, kwargs)]_vars

\* a Task has just been inserted with the longest title and holds it, with its
\* Project and the flag cleared
C7_Witness ==
    /\ last.op = "CreateTask"
    /\ last.result = "OK"
    /\ last.id \in DOMAIN tasks
    /\ tasks[last.id].title = LongestTitle
    /\ tasks[last.id].project \in DOMAIN projects
    /\ tasks[last.id].completed = FALSE

\* every stored name and title is at most 200 long
C8_StoredTextWithinLimit ==
    /\ \A p \in DOMAIN projects : Len(projects[p].name) <= 200
    /\ \A t \in DOMAIN tasks : Len(tasks[t].title) <= 200

\* the operation that ended in this step failed and wrote nothing
C8_Rejected ==
    /\ last'.result # "OK"
    /\ projects' = projects
    /\ tasks' = tasks

\* a step that inserts or saves a Project with a name, or a Task with a title,
\* longer than 200 is rejected
C8_TooLongRejected ==
    /\ last'.op = "CreateProject" =>
           \A kwargs \in ProjectCreateKwargs :
               (Len(kwargs.name) > 200 /\ CreateProject(kwargs)) => C8_Rejected
    /\ last'.op = "UpdateProject" =>
           \A p \in DOMAIN projects, kwargs \in ProjectUpdateKwargs :
               (Len(kwargs.name) > 200 /\ UpdateProject(p, kwargs)) => C8_Rejected
    /\ last'.op = "CreateTask" =>
           \A kwargs \in TaskCreateKwargs :
               (Len(kwargs.title) > 200 /\ CreateTask(kwargs)) => C8_Rejected
    /\ last'.op = "UpdateTask" =>
           \A t \in DOMAIN tasks, kwargs \in TaskUpdateKwargs :
               (/\ "title" \in DOMAIN kwargs
                /\ Len(kwargs.title) > 200
                /\ UpdateTask(t, kwargs)) => C8_Rejected

\* C8: in every reachable state every stored Project name and Task title has
\* length at most 200, and an insert or save of a Project with a longer name,
\* or of a Task with a longer title, is rejected and leaves the tables as they
\* were.
C8_LengthLimit ==
    /\ []C8_StoredTextWithinLimit
    /\ [][C8_TooLongRejected]_vars

\* a save of a Task with a title of 201 has just been rejected while a name of
\* exactly 200 and a title of exactly 200 are stored
C8_Witness ==
    /\ last.op = "UpdateTask"
    /\ last.result = "DataError"
    /\ \E p \in DOMAIN projects : Len(projects[p].name) = 200
    /\ \E t \in DOMAIN tasks : Len(tasks[t].title) = 200

\* C9: deleting a Project p leaves every other Project with all its fields, and
\* every Task whose project is not p with its project, title and completed,
\* unchanged: the Tasks removed are exactly those that referenced p.
C9_DeleteProjectFrame ==
    [][last'.op = "DeleteProject" =>
          \A p \in DOMAIN projects :
              DeleteProject(p) =>
                  /\ DOMAIN projects' = DOMAIN projects \ {p}
                  /\ \A q \in DOMAIN projects \ {p} : projects'[q] = projects[q]
                  /\ DOMAIN tasks' = {t \in DOMAIN tasks : tasks[t].project # p}
                  /\ \A t \in DOMAIN tasks' : tasks'[t] = tasks[t]]_vars

\* a Project has just been deleted together with one Task, and another Project
\* and a Task of it are left
C9_Witness ==
    /\ last.op = "DeleteProject"
    /\ last.deleted = 2
    /\ projects # <<>>
    /\ tasks # <<>>

\* C10: in every reachable state the reverse relation p.tasks of each Project
\* p is exactly the set of Tasks whose project is p, and every Task is in the
\* tasks of exactly one Project.
C10_ReverseRelation ==
    /\ \A p \in DOMAIN projects :
           Project_tasks(p) = {t \in DOMAIN tasks : tasks[t].project = p}
    /\ \A t \in DOMAIN tasks :
           Cardinality({p \in DOMAIN projects : t \in Project_tasks(p)}) = 1

\* one Project has no Task and another has two
C10_Witness ==
    \E p, q \in DOMAIN projects :
        /\ Project_tasks(p) = {}
        /\ Cardinality(Project_tasks(q)) = 2

====
